---- MODULE Spec2Model ----
(***************************************************************************)
(* Model of src/bot.py: the Telegram handler handle_message (lines 31-153) *)
(* and send_audio_with_retry (lines 15-29), run by the worker threads of   *)
(* the TeleBot object created at line 13, over one shared /tmp.            *)
(*                                                                         *)
(* Text (message text, extractor output, names, paths) is a sequence of    *)
(* one-character strings, so that strip, split, re.sub, slicing and        *)
(* os.path.join are computed character by character.                       *)
(***************************************************************************)
EXTENDS Integers, Sequences, FiniteSets, TLC

VARIABLES pc, text, info, artist, title, ext, folder, attempts, duration,
          log, dirs, files

vars == <<pc, text, info, artist, title, ext, folder, attempts, duration,
          log, dirs, files>>

(***************************************************************************)
(* Text helpers                                                            *)
(***************************************************************************)
Range(s) == {s[i] : i \in 1..Len(s)}

Take(s, n) == SubSeq(s, 1, IF Len(s) < n THEN Len(s) ELSE n)

Drop(s, n) == SubSeq(s, n + 1, Len(s))

Repeat(c, n) == [i \in 1..n |-> c]

\* sub in s (Python's `in` on str)
Contains(s, sub) ==
    \E i \in 1..(Len(s) - Len(sub) + 1) : SubSeq(s, i, i + Len(sub) - 1) = sub

Whitespace == {" ", "\t", "\n"}

\* str.strip()
RECURSIVE LStrip(_)
LStrip(s) == IF s # <<>> /\ Head(s) \in Whitespace THEN LStrip(Tail(s)) ELSE s

RECURSIVE RStrip(_)
RStrip(s) ==
    IF s # <<>> /\ s[Len(s)] \in Whitespace
    THEN RStrip(SubSeq(s, 1, Len(s) - 1))
    ELSE s

Strip(s) == RStrip(LStrip(s))

Separator == <<"|", "|", "|">>

\* str.split('|||'): leftmost, non-overlapping occurrences
RECURSIVE Split(_)
Split(s) ==
    IF Contains(s, Separator)
    THEN LET i == CHOOSE k \in 1..(Len(s) - 2) :
                      /\ SubSeq(s, k, k + 2) = Separator
                      /\ \A j \in 1..(k - 1) : SubSeq(s, j, j + 2) # Separator
         IN  <<SubSeq(s, 1, i - 1)>> \o Split(Drop(s, i + 2))
    ELSE <<s>>

(***************************************************************************)
(* Names and paths (bot.py lines 42, 55-66, 103)                           *)
(***************************************************************************)
None == <<>>

NoDuration == -1

NameLimit == 50

\* the character class without the slash
InvalidCharsNoSlash == {"\\", ":", "*", "?", "\"", "<", ">", "|", "(", ")"}

\* the character class of invalid_chars, line 58
InvalidChars == {"/", "\\", ":", "*", "?", "\"", "<", ">", "|", "(", ")"}

\* re.sub(invalid_chars, '_', s.strip())[:50]
Sanitize(s) ==
    LET t == Strip(s)
    IN  Take([i \in 1..Len(t) |-> IF t[i] \in InvalidChars THEN "_" ELSE t[i]],
             NameLimit)

TempDir == <<"/", "t", "m", "p">>

\* os.path.join(a, b) of posixpath
Join(a, b) ==
    IF b # <<>> /\ Head(b) = "/" THEN b
    ELSE IF a = <<>> \/ a[Len(a)] = "/" THEN a \o b
    ELSE a \o <<"/">> \o b

\* f"{artist} - {title}"
FolderName(a, t) == a \o <<" ", "-", " ">> \o t

FolderOf(a, t) == Join(TempDir, FolderName(a, t))

\* f"01 {title}.{ext}"
FileName(t, e) == <<"0", "1", " ">> \o t \o <<".">> \o e

\* f"01 {title} (tagged).{ext}"
TaggedName(t, e) ==
    <<"0", "1", " ">> \o t
        \o <<" ", "(", "t", "a", "g", "g", "e", "d", ")", ".">> \o e

\* an entry of the directory d (any depth)
Inside(p, d) == Len(p) > Len(d) + 1 /\ Take(p, Len(d) + 1) = d \o <<"/">>

(***************************************************************************)
(* The duration probe's output (bot.py lines 93-94)                        *)
(***************************************************************************)
Digits == {"0", "1", "2", "3", "4", "5", "6", "7", "8", "9"}

DigitVal(c) ==
    CASE c = "0" -> 0 [] c = "1" -> 1 [] c = "2" -> 2 [] c = "3" -> 3
      [] c = "4" -> 4 [] c = "5" -> 5 [] c = "6" -> 6 [] c = "7" -> 7
      [] c = "8" -> 8 [] c = "9" -> 9

RECURSIVE DecimalVal(_)
DecimalVal(s) ==
    IF s = <<>> THEN 0
    ELSE 10 * DecimalVal(SubSeq(s, 1, Len(s) - 1)) + DigitVal(s[Len(s)])

\* the texts float() accepts among those the probe is given here:
\* digits with an optional fraction
IsFloatText(s) ==
    LET dot == IF "." \in Range(s)
               THEN CHOOSE i \in 1..Len(s) : s[i] = "."
                        /\ \A j \in 1..(i - 1) : s[j] # "."
               ELSE Len(s) + 1
    IN  /\ dot > 1
        /\ Range(Take(s, dot - 1)) \subseteq Digits
        /\ Range(Drop(s, dot)) \subseteq Digits

\* int(float(s)): the integer part
IntOfFloat(s) ==
    LET dot == IF "." \in Range(s)
               THEN CHOOSE i \in 1..Len(s) : s[i] = "." ELSE Len(s) + 1
    IN  DecimalVal(Take(s, dot - 1))

\* lines 93-99: the duration of a numeric output ("ok"), None for no output
\* ("empty"), or the exception the inner try swallows
ProbeResult(out) ==
    LET s == Strip(out)
    IN  IF s = <<>> THEN [res |-> "empty", duration |-> NoDuration]
        ELSE IF IsFloatText(s) THEN [res |-> "ok", duration |-> IntOfFloat(s)]
        ELSE [res |-> "ValueError", duration |-> NoDuration]

(***************************************************************************)
(* send_audio_with_retry (bot.py lines 16-29)                              *)
(***************************************************************************)
MaxAttempts == 3

\* retry_if_exception_type((TimeoutError, ApiTelegramException))
RetryOn == {"TimeoutError", "ApiTelegramException"}

\* a retry on every exception (tenacity's default without retry=)
ShouldRetryAny(r, n) == r # "ok" /\ n < MaxAttempts

\* whether tenacity calls the function again after attempt n ended in r
ShouldRetry(r, n) == r \in RetryOn /\ n < MaxAttempts

(***************************************************************************)
(* Inputs                                                                  *)
(***************************************************************************)
NumThreads == 2

Workers == 1..NumThreads

Needle == <<"s", "o", "u", "n", "d", "c", "l", "o", "u", "d", ".", "c", "o", "m">>

\* a check for "soundcloud" alone
IsSoundCloudUrlHostOnly(url) == Contains(url, Take(Needle, 10))

\* line 36
IsSoundCloudUrl(url) == Contains(url, Needle)

Messages ==
    { <<" ">> \o Needle \o <<"/", "a", "/", "t", "\n">>,
      Take(Needle, 13),
      Take(Needle, 10) \o <<",">> \o Drop(Needle, 11),
      <<"h", "i">> }

Line(a, t, e) == a \o Separator \o t \o Separator \o e \o <<"\n">>

Mp3 == <<"m", "p", "3">>

\* what `yt-dlp --print` may write: a track, and a line of two fields
InfoOutputs ==
    { Line(<<"a", "/", "b">>, <<"t">>, Mp3),
      <<"a">> \o Separator \o <<"t", "\n">> }

MaxFieldLen == 2

Alphabet == {"a", "/", "|", " ", "."}

RECURSIVE Texts(_)
Texts(n) ==
    IF n = 0 THEN {<<>>}
    ELSE Texts(n - 1) \cup {Append(s, c) : s \in Texts(n - 1), c \in Alphabet}

\* names longer than the 50 characters kept
LongNames ==
    {Repeat("a", n) : n \in (NameLimit - 1)..(NameLimit + 2)}
        \cup {<<"/">> \o Repeat("b", NameLimit + 5),
              Repeat("c", NameLimit) \o <<"/", ".", ".">>}

FieldTexts == Texts(MaxFieldLen) \cup LongNames

\* every short or long text as the uploader, and as the title
NameOutputs ==
    {Line(a, <<"t">>, Mp3) : a \in FieldTexts}
        \cup {Line(<<"a", ":", "b">>, t, Mp3) : t \in FieldTexts}

ProbeOutputs ==
    { <<"1", "2", ".", "7", "\n">>, <<"\n">>, <<"N", "/", "A", "\n">> }

ReplyResults == {"ok", "ApiTelegramException"}

AudioResults == {"ok", "TimeoutError", "ApiTelegramException", "ConnectionError"}

\* the tagging moved before the probe
PipelineTagFirst == <<"tag", "replace", "probe", "open_audio">>

\* the order of the statements between the file check and the upload:
\* the probe (lines 85-99), ffmpeg (101-111), os.replace (115), open (120)
Pipeline == <<"probe", "tag", "replace", "open_audio">>

After(l) == Pipeline[(CHOOSE i \in 1..Len(Pipeline) : Pipeline[i] = l) + 1]

\* a probe without its own try/except
NextAfterProbeErrorFatal == "except"

\* line 97: the inner except swallows the probe's exception and the handler
\* goes on with the statement after the probe
NextAfterProbeError == After("probe")

\* a failed ffmpeg ignored (subprocess.call for check_call)
NextAfterTagErrorIgnored == "open_audio"

\* line 111 raises into the outer except (line 143)
NextAfterTagError == "except"

\* a failed send_document swallowed without the error reply
NextAfterDocumentErrorSilent == "finally"

\* line 132 raises into the outer except (line 143)
NextAfterDocumentError == "except"

\* a cleanup on the success path only, with no finally clause
NextAfterExceptNoCleanup == "done"

\* line 147: the finally clause follows the except clause
NextAfterExcept == "finally"

\* the inputs of the two worker threads, and of one worker alone
ThreadedInputs ==
    [info |-> InfoOutputs, probe |-> {<<"1", "2", ".", "7", "\n">>},
     audio |-> AudioResults]

WideInputs ==
    [info |-> InfoOutputs \cup NameOutputs, probe |-> ProbeOutputs,
     audio |-> AudioResults]

Entry(op, res, arg) == [op |-> op, res |-> res, arg |-> arg]

(***************************************************************************)
(* State                                                                   *)
(*   pc[t]       where worker t stands in handle_message                   *)
(*   text[t]     message.text of the message t handles                     *)
(*   info[t]     info_output (line 52)                                     *)
(*   artist, title, ext, folder   the handler's locals (lines 43, 55-64)   *)
(*   attempts[t] tenacity's attempt number                                 *)
(*   duration[t] line 86/94, NoDuration for None                           *)
(*   log[t]      the external calls t made for its message, in order       *)
(*               (the attempts of send_audio folded into one entry)        *)
(*   dirs, files the directories and files under /tmp, shared              *)
(***************************************************************************)
FilePath(t) == Join(folder[t], FileName(title[t], ext[t]))

TaggedPath(t) == Join(folder[t], TaggedName(title[t], ext[t]))

Exists(p) == p \in DOMAIN files

Content(p) == IF Exists(p) THEN files[p] ELSE "missing"

WriteFile(p, c) == [q \in DOMAIN files \cup {p} |-> IF q = p THEN c ELSE files[q]]

\* shutil.rmtree(d)
RmTreeDirs(d) == {x \in dirs : x # d /\ ~Inside(x, d)}

RmTreeFiles(d) == [q \in {x \in DOMAIN files : ~Inside(x, d)} |-> files[q]]

Logged(t, e) == log' = [log EXCEPT ![t] = Append(@, e)]

\* the attempts of one retried call share one entry, which holds the result
\* of the latest attempt; attempts[t] counts them
LoggedAttempt(t, e) ==
    log' = [log EXCEPT ![t] =
               IF attempts[t] = 0 THEN Append(@, e)
               ELSE SubSeq(@, 1, Len(@) - 1) \o <<e>>]

Goto(t, l) == pc' = [pc EXCEPT ![t] = l]

Init ==
    /\ pc = [t \in Workers |-> "idle"]
    /\ text = [t \in Workers |-> <<>>]
    /\ info = [t \in Workers |-> <<>>]
    /\ artist = [t \in Workers |-> <<>>]
    /\ title = [t \in Workers |-> <<>>]
    /\ ext = [t \in Workers |-> <<>>]
    /\ folder = [t \in Workers |-> None]
    /\ attempts = [t \in Workers |-> 0]
    /\ duration = [t \in Workers |-> NoDuration]
    /\ log = [t \in Workers |-> <<>>]
    /\ dirs = {TempDir}
    /\ files = [q \in {} |-> "raw"]

\* lines 32-36: a worker takes a message; url = message.text.strip()
Receive(t) ==
    /\ pc[t] \in {"idle", "done"}
    /\ \E m \in Messages :
          /\ text' = [text EXCEPT ![t] = m]
          /\ Goto(t, IF IsSoundCloudUrl(Strip(m)) THEN "processing" ELSE "invalid")
    /\ info' = [info EXCEPT ![t] = <<>>]
    /\ artist' = [artist EXCEPT ![t] = <<>>]
    /\ title' = [title EXCEPT ![t] = <<>>]
    /\ ext' = [ext EXCEPT ![t] = <<>>]
    /\ folder' = [folder EXCEPT ![t] = None]
    /\ attempts' = [attempts EXCEPT ![t] = 0]
    /\ duration' = [duration EXCEPT ![t] = NoDuration]
    /\ log' = [log EXCEPT ![t] = <<>>]
    /\ UNCHANGED <<dirs, files>>

\* lines 37-39: the reply, then return (an exception of reply_to leaves the
\* handler as well)
ReplyInvalid(t) ==
    /\ pc[t] = "invalid"
    /\ \E r \in ReplyResults : Logged(t, Entry("reply_invalid", r, "-"))
    /\ Goto(t, "done")
    /\ UNCHANGED <<text, info, artist, title, ext, folder, attempts, duration,
                   dirs, files>>

\* line 47
ReplyProcessing(t) ==
    /\ pc[t] = "processing"
    /\ \E r \in ReplyResults :
          /\ Logged(t, Entry("reply_processing", r, "-"))
          /\ Goto(t, IF r = "ok" THEN "extract" ELSE "except")
    /\ UNCHANGED <<text, info, artist, title, ext, folder, attempts, duration,
                   dirs, files>>

\* line 52: yt-dlp --print exits non-zero
ExtractFail(t) ==
    /\ pc[t] = "extract"
    /\ Logged(t, Entry("yt_dlp_print", "CalledProcessError", "-"))
    /\ Goto(t, "except")
    /\ UNCHANGED <<text, info, artist, title, ext, folder, attempts, duration,
                   dirs, files>>

\* lines 52-66: the metadata line, its three fields, the names and the folder
Extract(t, outs) ==
    /\ pc[t] = "extract"
    /\ \E o \in outs :
          LET out == Strip(o)
              fields == Split(out)
          IN  /\ info' = [info EXCEPT ![t] = out]
              /\ IF Len(fields) = 3
                 THEN /\ artist' = [artist EXCEPT ![t] = Sanitize(fields[1])]
                      /\ title' = [title EXCEPT ![t] = Sanitize(fields[2])]
                      /\ ext' = [ext EXCEPT ![t] = fields[3]]
                      /\ folder' = [folder EXCEPT ![t] =
                             FolderOf(Sanitize(fields[1]), Sanitize(fields[2]))]
                      /\ Logged(t, Entry("yt_dlp_print", "ok", "-"))
                      /\ Goto(t, "makedirs")
                 ELSE /\ Logged(t, Entry("yt_dlp_print", "ValueError", "-"))
                      /\ Goto(t, "except")
                      /\ UNCHANGED <<artist, title, ext, folder>>
    /\ UNCHANGED <<text, attempts, duration, dirs, files>>

\* line 69: os.makedirs(folder, exist_ok=True)
MakeDirs(t) ==
    /\ pc[t] = "makedirs"
    /\ \E r \in {"ok", "OSError"} :
          /\ Logged(t, Entry("makedirs", r, "-"))
          /\ dirs' = IF r = "ok" THEN dirs \cup {folder[t]} ELSE dirs
          /\ Goto(t, IF r = "ok" THEN "download" ELSE "except")
    /\ UNCHANGED <<text, info, artist, title, ext, folder, attempts, duration,
                   files>>

\* lines 73-77: yt-dlp -x -o file_path. It creates the output's directory when
\* that is missing; with exit status 0 the file is at file_path ("ok") or under
\* another name ("ok_elsewhere")
Download(t) ==
    /\ pc[t] = "download"
    /\ \E r \in {"ok", "ok_elsewhere", "CalledProcessError"} :
          /\ Logged(t, Entry("yt_dlp_download",
                            IF r = "CalledProcessError" THEN r ELSE "ok", "-"))
          /\ dirs' = IF r = "CalledProcessError" THEN dirs
                     ELSE dirs \cup {folder[t]}
          /\ files' = IF r = "ok" THEN WriteFile(FilePath(t), "raw") ELSE files
          /\ Goto(t, IF r = "CalledProcessError" THEN "except" ELSE "verify")
    /\ UNCHANGED <<text, info, artist, title, ext, folder, attempts, duration>>

\* lines 80-82
Verify(t) ==
    /\ pc[t] = "verify"
    /\ IF Exists(FilePath(t))
       THEN /\ Goto(t, Pipeline[1])
            /\ UNCHANGED log
       ELSE /\ Logged(t, Entry("exists", "FileNotFoundError", "-"))
            /\ Goto(t, "except")
    /\ UNCHANGED <<text, info, artist, title, ext, folder, attempts, duration,
                   dirs, files>>

\* lines 87-99: ffprobe exits non-zero (as it does when the file is gone)
ProbeFail(t) ==
    /\ pc[t] = "probe"
    /\ Logged(t, Entry("ffprobe", "CalledProcessError", Content(FilePath(t))))
    /\ duration' = [duration EXCEPT ![t] = NoDuration]
    /\ Goto(t, NextAfterProbeError)
    /\ UNCHANGED <<text, info, artist, title, ext, folder, attempts, dirs, files>>

\* lines 87-99: ffprobe prints something
Probe(t, outs) ==
    /\ pc[t] = "probe"
    /\ Exists(FilePath(t))
    /\ \E o \in outs :
          /\ Logged(t, Entry("ffprobe", ProbeResult(o).res, Content(FilePath(t))))
          /\ duration' = [duration EXCEPT ![t] = ProbeResult(o).duration]
          /\ Goto(t, IF ProbeResult(o).res = "ValueError"
                     THEN NextAfterProbeError ELSE After("probe"))
    /\ UNCHANGED <<text, info, artist, title, ext, folder, attempts, dirs, files>>

\* lines 103-111: ffmpeg -i file_path ... tagged_path
Tag(t) ==
    /\ pc[t] = "tag"
    /\ \E r \in {"ok", "CalledProcessError"} :
          /\ r = "ok" => Exists(FilePath(t))
          /\ Logged(t, Entry("ffmpeg", r, "-"))
          /\ files' = IF r = "ok" THEN WriteFile(TaggedPath(t), "tagged") ELSE files
          /\ Goto(t, IF r = "ok" THEN After("tag") ELSE NextAfterTagError)
    /\ UNCHANGED <<text, info, artist, title, ext, folder, attempts, duration,
                   dirs>>

\* line 115: os.replace(tagged_path, file_path)
Replace(t) ==
    /\ pc[t] = "replace"
    /\ IF Exists(TaggedPath(t))
       THEN /\ files' = [q \in (DOMAIN files \ {TaggedPath(t)}) \cup {FilePath(t)} |->
                            IF q = FilePath(t) THEN files[TaggedPath(t)]
                            ELSE files[q]]
            /\ Logged(t, Entry("replace", "ok", "-"))
            /\ Goto(t, After("replace"))
       ELSE /\ Logged(t, Entry("replace", "FileNotFoundError", "-"))
            /\ Goto(t, "except")
            /\ UNCHANGED files
    /\ UNCHANGED <<text, info, artist, title, ext, folder, attempts, duration,
                   dirs>>

\* line 120: open(file_path, 'rb'); its failure is caught at line 129
OpenAudio(t) ==
    /\ pc[t] = "open_audio"
    /\ IF Exists(FilePath(t))
       THEN /\ Goto(t, "send_audio")
            /\ UNCHANGED log
       ELSE /\ Logged(t, Entry("open", "FileNotFoundError", "-"))
            /\ Goto(t, "open_document")
    /\ attempts' = [attempts EXCEPT ![t] = 0]
    /\ UNCHANGED <<text, info, artist, title, ext, folder, duration, dirs, files>>

\* lines 16-29, 121-130: one attempt of bot.send_audio under tenacity
SendAudio(t, results) ==
    /\ pc[t] = "send_audio"
    /\ attempts' = [attempts EXCEPT ![t] = @ + 1]
    /\ \E r \in results :
          /\ LoggedAttempt(t, Entry("send_audio", r, "-"))
          /\ Goto(t, IF r = "ok" THEN "finally"
                     ELSE IF ShouldRetry(r, attempts[t] + 1) THEN "send_audio"
                     ELSE "open_document")
    /\ UNCHANGED <<text, info, artist, title, ext, folder, duration, dirs, files>>

\* line 131: open(file_path, 'rb') in the fallback
OpenDocument(t) ==
    /\ pc[t] = "open_document"
    /\ IF Exists(FilePath(t))
       THEN /\ Goto(t, "send_document")
            /\ UNCHANGED log
       ELSE /\ Logged(t, Entry("open", "FileNotFoundError", "-"))
            /\ Goto(t, "except")
    /\ UNCHANGED <<text, info, artist, title, ext, folder, attempts, duration,
                   dirs, files>>

\* lines 132-139
SendDocument(t) ==
    /\ pc[t] = "send_document"
    /\ \E r \in ReplyResults :
          /\ Logged(t, Entry("send_document", r, "-"))
          /\ Goto(t, IF r = "ok" THEN "finally" ELSE NextAfterDocumentError)
    /\ UNCHANGED <<text, info, artist, title, ext, folder, attempts, duration,
                   dirs, files>>

\* lines 143-145: the error reply; finally runs whether or not it raises
Except(t) ==
    /\ pc[t] = "except"
    /\ \E r \in ReplyResults : Logged(t, Entry("reply_error", r, "-"))
    /\ Goto(t, NextAfterExcept)
    /\ UNCHANGED <<text, info, artist, title, ext, folder, attempts, duration,
                   dirs, files>>

\* lines 147-153
Finally(t) ==
    /\ pc[t] = "finally"
    /\ IF folder[t] # None /\ folder[t] \in dirs
       THEN /\ dirs' = RmTreeDirs(folder[t])
            /\ files' = RmTreeFiles(folder[t])
            /\ Logged(t, Entry("rmtree", "ok", "-"))
       ELSE UNCHANGED <<dirs, files, log>>
    /\ Goto(t, "done")
    /\ UNCHANGED <<text, info, artist, title, ext, folder, attempts, duration>>

Step(t, in) ==
    \/ Receive(t)
    \/ ReplyInvalid(t)
    \/ ReplyProcessing(t)
    \/ ExtractFail(t)
    \/ Extract(t, in.info)
    \/ MakeDirs(t)
    \/ Download(t)
    \/ Verify(t)
    \/ ProbeFail(t)
    \/ Probe(t, in.probe)
    \/ Tag(t)
    \/ Replace(t)
    \/ OpenAudio(t)
    \/ SendAudio(t, in.audio)
    \/ OpenDocument(t)
    \/ SendDocument(t)
    \/ Except(t)
    \/ Finally(t)

\* the worker threads of the TeleBot, sharing /tmp
Next == \E t \in Workers : Step(t, ThreadedInputs)

Spec == Init /\ [][Next]_vars

\* one worker alone, over the wider inputs
NextOne == Step(1, WideInputs)

SpecOne == Init /\ [][NextOne]_vars

(***************************************************************************)
(* Reading the log                                                         *)
(***************************************************************************)
Has(t, op, res) ==
    \E i \in DOMAIN log[t] : log[t][i].op = op /\ log[t][i].res = res

Called(t, op) == \E i \in DOMAIN log[t] : log[t][i].op = op

Count(t, op) == Cardinality({i \in DOMAIN log[t] : log[t][i].op = op})

\* the position of the call op that ended in res, 0 when there is none
\* (each call but send_audio is made at most once for a message)
Index(t, op, res) ==
    IF Has(t, op, res)
    THEN CHOOSE i \in DOMAIN log[t] : log[t][i].op = op /\ log[t][i].res = res
    ELSE 0

IndexOfOp(t, op) ==
    IF Called(t, op) THEN CHOOSE i \in DOMAIN log[t] : log[t][i].op = op ELSE 0

DeliveryOps == {"send_audio", "send_document"}

\* the position of the first delivery call, 0 when there is none
FirstDelivery(t) ==
    IF \E i \in DOMAIN log[t] : log[t][i].op \in DeliveryOps
    THEN CHOOSE i \in DOMAIN log[t] :
             /\ log[t][i].op \in DeliveryOps
             /\ \A j \in 1..(i - 1) : log[t][j].op \notin DeliveryOps
    ELSE 0

ValidUrl(t) == Contains(Strip(text[t]), Needle)

AudioPhaseFailed(t) ==
    /\ Called(t, "send_audio")
    /\ ~Has(t, "send_audio", "ok")
    /\ pc[t] # "send_audio"

(***************************************************************************)
(* C1: a message whose stripped text does not contain "soundcloud.com"     *)
(* gets exactly one reply, the "Please send a valid ..." one, and nothing  *)
(* else is called: no extractor, transcoder, probe, folder or delivery.    *)
(***************************************************************************)
C1_InvalidUrlOnlyReplies ==
    \A t \in Workers :
        (pc[t] # "idle" /\ ~ValidUrl(t)) =>
            /\ pc[t] \in {"invalid", "done"}
            /\ pc[t] = "invalid" => log[t] = <<>>
            /\ pc[t] = "done" =>
                   Len(log[t]) = 1 /\ log[t][1].op = "reply_invalid"
            /\ folder[t] = None
            /\ attempts[t] = 0

C1_Witness ==
    \E t \in Workers :
        /\ pc[t] = "done"
        /\ Contains(text[t], Take(Needle, 10))
        /\ ~ValidUrl(t)
        /\ log[t] = <<Entry("reply_invalid", "ok", "-")>>

(***************************************************************************)
(* C2: bot.send_audio is attempted at most 3 times for one message, and an *)
(* attempt after the first is made only when the attempt before it raised  *)
(* TimeoutError or ApiTelegramException and was not the third.             *)
(***************************************************************************)
C2_RetryOnlyAfterRetryable ==
    [][\A t \in Workers :
          attempts'[t] = attempts[t] + 1 =>
              /\ attempts'[t] <= 3
              /\ attempts[t] >= 1 =>
                     /\ log[t][Len(log[t])].op = "send_audio"
                     /\ log[t][Len(log[t])].res
                            \in {"TimeoutError", "ApiTelegramException"}]_vars

C2_Witness ==
    \E t \in Workers :
        /\ attempts[t] = 3
        /\ Has(t, "send_audio", "TimeoutError")
        /\ pc[t] = "open_document"

(***************************************************************************)
(* C3: bot.send_document is called exactly once when the send_audio phase  *)
(* ended in failure, never when an attempt of send_audio succeeded, and    *)
(* never before the send_audio phase has ended.                            *)
(***************************************************************************)
C3_DocumentOnceAfterAudioFailure ==
    \A t \in Workers :
        /\ (pc[t] = "done" /\ AudioPhaseFailed(t)) => Count(t, "send_document") = 1
        /\ Has(t, "send_audio", "ok") => ~Called(t, "send_document")
        /\ (Called(t, "send_document") \/ pc[t] = "send_document") =>
               pc[t] \notin {"open_audio", "send_audio"}

C5_DeliveryAfterPipeline ==
    \A t \in Workers :
        /\ (FirstDelivery(t) > 0 \/ pc[t] \in DeliveryOps) =>
               LET i == Index(t, "yt_dlp_print", "ok")
                   j == Index(t, "yt_dlp_download", "ok")
                   k == Index(t, "ffmpeg", "ok")
               IN  /\ 0 < i /\ i < j /\ j < k
                   /\ FirstDelivery(t) > 0 => k < FirstDelivery(t)
        /\ (\E i \in DOMAIN log[t] :
               /\ log[t][i].op \in {"yt_dlp_print", "yt_dlp_download", "exists",
                                    "ffmpeg"}
               /\ log[t][i].res # "ok") =>
               /\ FirstDelivery(t) = 0
               /\ pc[t] \in {"except", "finally", "done"}

C5_Witness ==
    \E t \in Workers :
        /\ pc[t] = "done"
        /\ Has(t, "send_audio", "ConnectionError")
        /\ Has(t, "send_document", "ok")

(***************************************************************************)
(* C6: the sanitized artist and title hold none of / \ : * ? " < > | ( )   *)
(* and at most 50 characters, and the folder made and removed is a direct  *)
(* child of /tmp: never /tmp itself, never a path outside it.              *)
(***************************************************************************)
\* posixpath.dirname's head.rstrip('/')
RECURSIVE RStripSlash(_)
RStripSlash(s) ==
    IF s # <<>> /\ s[Len(s)] = "/" THEN RStripSlash(SubSeq(s, 1, Len(s) - 1)) ELSE s

\* posixpath.dirname / basename: cut at the last "/"
LastSlash(p) ==
    IF "/" \in Range(p)
    THEN CHOOSE i \in 1..Len(p) :
             p[i] = "/" /\ \A j \in (i + 1)..Len(p) : p[j] # "/"
    ELSE 0

Basename(p) == Drop(p, LastSlash(p))

Dirname(p) ==
    LET head == Take(p, LastSlash(p))
    IN  IF head # <<>> /\ Range(head) # {"/"} THEN RStripSlash(head) ELSE head

DirectChildOfTmp(p) ==
    /\ Dirname(p) = <<"/", "t", "m", "p">>
    /\ Basename(p) \notin {<<>>, <<".">>, <<".", ".">>}

C6_FolderUnderTmp ==
    /\ \A t \in Workers :
          folder[t] # None =>
              /\ Range(artist[t]) \cap {"/", "\\", ":", "*", "?", "\"", "<", ">",
                                        "|", "(", ")"} = {}
              /\ Range(title[t]) \cap {"/", "\\", ":", "*", "?", "\"", "<", ">",
                                       "|", "(", ")"} = {}
              /\ Len(artist[t]) <= 50
              /\ Len(title[t]) <= 50
              /\ DirectChildOfTmp(folder[t])
    /\ <<"/", "t", "m", "p">> \in dirs
    /\ \A d \in dirs \ {<<"/", "t", "m", "p">>} : DirectChildOfTmp(d)

C6_Witness ==
    \E t \in Workers :
        /\ pc[t] = "done"
        /\ Has(t, "rmtree", "ok")
        /\ Head(info[t]) = "/"
        /\ Len(info[t]) > 60
        /\ Len(artist[t]) = 50
        /\ Head(artist[t]) = "_"

C8_OneOutcome ==
    \A t \in Workers :
        (pc[t] = "done" /\ ValidUrl(t)) =>
            LET audio == Has(t, "send_audio", "ok")
                document == Has(t, "send_document", "ok")
                errors == Count(t, "reply_error")
                failed ==
                    \/ \E i \in DOMAIN log[t] :
                          /\ log[t][i].op \in {"yt_dlp_print", "yt_dlp_download",
                                               "exists", "ffmpeg"}
                          /\ log[t][i].res # "ok"
                    \/ /\ AudioPhaseFailed(t)
                       /\ Has(t, "send_document", "ApiTelegramException")
            IN  /\ ~(audio /\ document)
                /\ (audio \/ document) => errors = 0
                /\ ~(audio \/ document) => errors = 1
                /\ failed => errors = 1

C8_Witness ==
    \E t \in Workers :
        /\ pc[t] = "done"
        /\ AudioPhaseFailed(t)
        /\ Has(t, "send_document", "ApiTelegramException")
        /\ Has(t, "reply_error", "ok")

(***************************************************************************)
(* C9: a failed duration probe is not fatal: when ffprobe exits with an    *)
(* error or prints nothing or something that is no number, the duration is *)
(* None, the next step is the tagging as after a successful probe, and an  *)
(* error reply is sent only when some other step failed.                   *)
(***************************************************************************)
C9_ProbeFailureNotFatal ==
    \A t \in Workers :
        \A i \in DOMAIN log[t] :
            (log[t][i].op = "ffprobe" /\ log[t][i].res # "ok") =>
                /\ duration[t] = NoDuration
                /\ IF i = Len(log[t]) THEN pc[t] = "tag"
                   ELSE log[t][i + 1].op = "ffmpeg"
                /\ Called(t, "reply_error") =>
                       \E j \in DOMAIN log[t] :
                           /\ log[t][j].op \notin {"ffprobe", "reply_error"}
                           /\ log[t][j].res # "ok"

C9_Witness ==
    \E t \in Workers :
        /\ pc[t] = "done"
        /\ Has(t, "ffprobe", "ValueError")
        /\ Has(t, "send_audio", "ok")
        /\ ~Called(t, "reply_error")

(***************************************************************************)
(* C10: the cleanup of one handler never removes the folder or the audio   *)
(* file of another handler that has created them and has not finished      *)
(* delivering, also when both resolve to the same artist and title.        *)
(***************************************************************************)
C10_NoInterference ==
    \A t \in Workers :
        /\ (Has(t, "makedirs", "ok")
              /\ pc[t] \in {"download", "verify", "probe", "tag", "replace",
                            "open_audio", "send_audio", "open_document",
                            "send_document"}) => folder[t] \in dirs
        /\ pc[t] \in {"probe", "tag", "replace", "open_audio", "open_document"} =>
               Exists(FilePath(t))

====
